---- MODULE Spec2Model ----
(***************************************************************************)
(* A model of ppmadapter's PPMDecoder: the edge detector and pulse timer   *)
(* of feed(), the frame state machine of signal(), and the sync-loss guard *)
(* at the end of feed().  The float arithmetic of the source (the marker   *)
(* width and the axis value) is modelled as IEEE-754 binary64 arithmetic   *)
(* with round-to-nearest-even, because int() of the computed double        *)
(* differs from the truncation of the exact rational at widths whose exact *)
(* value is an integer (rate 2000, width 1: -50, not -51).                 *)
(***************************************************************************)
EXTENDS Integers, Sequences, FiniteSets, TLC

(***************************************************************************)
(* Natural numbers of any size as little-endian sequences of limbs of      *)
(* LimbBits bits (no zero top limb; the empty sequence is 0).  TLC         *)
(* integers are 32 bits wide; a double's 53-bit significand is not.        *)
(***************************************************************************)
LimbBits == 12

Limb == 2 ^ LimbBits

RECURSIVE NatLimbs(_)
NatLimbs(n) ==
    IF n = 0 THEN <<>> ELSE <<n % Limb>> \o NatLimbs(n \div Limb)

RECURSIVE LimbsNat(_)
LimbsNat(b) ==
    IF b = <<>> THEN 0 ELSE b[1] + Limb * LimbsNat(Tail(b))

RECURSIVE Norm(_)
Norm(b) ==
    IF b = <<>> THEN <<>>
    ELSE IF b[Len(b)] = 0 THEN Norm(SubSeq(b, 1, Len(b) - 1))
    ELSE b

\* b * k + carry, for a multiplier k below 2^18
RECURSIVE MulSmall(_, _, _)
MulSmall(b, k, carry) ==
    IF b = <<>> THEN NatLimbs(carry)
    ELSE LET t == b[1] * k + carry
         IN  <<t % Limb>> \o MulSmall(Tail(b), k, t \div Limb)

\* quotient and remainder of b by a divisor d below 2^18 (long division
\* from the top limb)
RECURSIVE DivRem(_, _)
DivRem(b, d) ==
    IF b = <<>> THEN [quo |-> <<>>, rem |-> 0]
    ELSE LET hi  == DivRem(Tail(b), d)
             cur == hi.rem * Limb + b[1]
         IN  [quo |-> <<cur \div d>> \o hi.quo, rem |-> cur % d]

RECURSIVE SmallBitLen(_)
SmallBitLen(n) ==
    IF n = 0 THEN 0 ELSE 1 + SmallBitLen(n \div 2)

BitLen(b) ==
    IF b = <<>> THEN 0
    ELSE LimbBits * (Len(b) - 1) + SmallBitLen(b[Len(b)])

\* b * 2^k
ShiftLeft(b, k) ==
    IF b = <<>> THEN <<>>
    ELSE [i \in 1..(k \div LimbBits) |-> 0] \o MulSmall(b, 2 ^ (k % LimbBits), 0)

DropLimbs(b, n) ==
    IF n >= Len(b) THEN <<>> ELSE SubSeq(b, n + 1, Len(b))

ShiftOut(b, dv, n) ==
    [quo  |-> Norm(dv.quo),
     lost |-> dv.rem # 0 \/ (\E i \in 1..n : i <= Len(b) /\ b[i] # 0)]

\* floor(b / 2^k), and whether any nonzero bit was shifted out
ShiftRight(b, k) ==
    ShiftOut(b, DivRem(DropLimbs(b, k \div LimbBits), 2 ^ (k % LimbBits)), k \div LimbBits)

IsOdd(b) ==
    b # <<>> /\ b[1] % 2 = 1

\* x < y on normalised limb sequences
RECURSIVE LimbsLess(_, _)
LimbsLess(x, y) ==
    IF Len(x) # Len(y) THEN Len(x) < Len(y)
    ELSE IF x = <<>> THEN FALSE
    ELSE IF x[Len(x)] # y[Len(y)] THEN x[Len(x)] < y[Len(y)]
    ELSE LimbsLess(Norm(SubSeq(x, 1, Len(x) - 1)), Norm(SubSeq(y, 1, Len(y) - 1)))

\* x - y - borrow for x >= y
RECURSIVE SubLimbs(_, _, _)
SubLimbs(x, y, borrow) ==
    IF x = <<>> THEN <<>>
    ELSE LET yb == IF y = <<>> THEN 0 ELSE y[1]
             t  == x[1] - yb - borrow
             yt == IF y = <<>> THEN <<>> ELSE Tail(y)
         IN  <<t % Limb>> \o SubLimbs(Tail(x), yt, IF t < 0 THEN 1 ELSE 0)

(***************************************************************************)
(* binary64 values: neg, m, e stand for (-1)^neg * m * 2^e with m a        *)
(* significand of at most Precision bits.  The magnitudes the decoder      *)
(* computes are far from the subnormal and overflow ranges, so the         *)
(* exponent is unbounded here.                                             *)
(***************************************************************************)
Precision == 53

\* the bits of b beyond Precision
RoundShift(b) ==
    IF BitLen(b) > Precision THEN BitLen(b) - Precision ELSE 0

\* q kept, or q + 1: rb is the first bit dropped, st whether a lower one is set
RoundPick(q, rb, st, k) ==
    [sig |-> IF rb /\ (st \/ IsOdd(q)) THEN MulSmall(q, 1, 1) ELSE q, sh |-> k]

RoundFrom(hs, sticky, k) ==
    RoundPick(ShiftRight(hs.quo, 1).quo, IsOdd(hs.quo), sticky \/ hs.lost, k)

RoundTo(b, sticky, k) ==
    IF k = 0 THEN [sig |-> b, sh |-> 0]
    ELSE RoundFrom(ShiftRight(b, k - 1), sticky, k)

\* round the integer b (sticky: a nonzero fraction was already discarded
\* below it) to Precision bits, ties to even; the result is sig * 2^sh
RoundBits(b, sticky) ==
    RoundTo(b, sticky, RoundShift(b))

FRounded(neg, rn, e) ==
    [neg |-> neg, m |-> rn.sig, e |-> e + rn.sh]

\* the double nearest to p / q, for integers p >= 0 and 0 < q < 2^18: a
\* float division of two exactly representable integers, or a decimal literal
GuardBits == 84

FDivRound(dv) ==
    FRounded(FALSE, RoundBits(Norm(dv.quo), dv.rem # 0), -GuardBits)

FDiv(p, q) ==
    FDivRound(DivRem(ShiftLeft(NatLimbs(p), GuardBits), q))

\* a * k for a double a and an exactly representable integer 0 <= k < 2^18
FMul(a, k) ==
    FRounded(a.neg, RoundBits(Norm(MulSmall(a.m, k, 0)), FALSE), a.e)

FSubAligned(x, y, ex) ==
    IF LimbsLess(x, y)
    THEN FRounded(TRUE, RoundBits(Norm(SubLimbs(y, x, 0)), FALSE), ex)
    ELSE FRounded(FALSE, RoundBits(Norm(SubLimbs(x, y, 0)), FALSE), ex)

FSubAt(a, b, ex) ==
    FSubAligned(ShiftLeft(a.m, a.e - ex), ShiftLeft(b.m, b.e - ex), ex)

\* a - b for nonnegative doubles a and b
FSub(a, b) ==
    FSubAt(a, b, IF a.e < b.e THEN a.e ELSE b.e)

\* the whole part of the magnitude of a
FWhole(a) ==
    IF a.e >= 0 THEN LimbsNat(ShiftLeft(a.m, a.e))
    ELSE LimbsNat(ShiftRight(a.m, -a.e).quo)

\* int(a): truncation toward zero
FInt(a) ==
    IF a.neg THEN -FWhole(a) ELSE FWhole(a)

(***************************************************************************)
(* PPMDecoder                                                              *)
(***************************************************************************)
\* an attribute that is None, or holds a value
None == <<>>

Some(v) == <<v>>

\* self._threshold
threshold == 15000

\* self._mapping: channel index -> axis
mapping ==
    (0 :> "ABS_X") @@ (1 :> "ABS_Y") @@ (2 :> "ABS_Z") @@ (3 :> "ABS_THROTTLE")

\* self._marker = int(2.0 * 0.0025 * self._rate)
MarkerOf(r) ==
    FInt(FMul(FMul(FDiv(25, 10000), 2), r))

\* math.floor(a): the largest integer not above a
FFloor(a) ==
    IF ~a.neg THEN FWhole(a)
    ELSE IF a.e < 0 /\ ShiftRight(a.m, -a.e).lost THEN -FWhole(a) - 1
    ELSE -FWhole(a)

ValueOfFloor(x, r) ==
    FFloor(FMul(FMul(FSub(FDiv(x, r), FDiv(7, 10000)), 1000), 255))

\* value = int((float(w) / self._rate - 0.0007) * 1000 * 255)
ValueOf(x, r) ==
    FInt(FMul(FMul(FSub(FDiv(x, r), FDiv(7, 10000)), 1000), 255))

\* rates the decoders of the model are constructed with
FeedRates == {400}

SignalRates == {700, 1600, 2000}

FrameRates == {400, 700}

SplitRates == {700}

StreamRates == {700}

AllRates == FeedRates \cup SignalRates \cup FrameRates \cup SplitRates \cup StreamRates

\* the values of every channel pulse width at every rate, computed once
ValueTable ==
    [r \in AllRates |-> [x \in 1..MarkerOf(r) |-> ValueOf(x, r)]]

VARIABLES
    rate,       \* self._rate
    marker,     \* self._marker
    lf,         \* self._lf: offset of the last falling edge, or None
    last_edge,  \* self._last_edge: level of the previous sample, or None
    ch,         \* self._ch: channel index, or None
    op,         \* the operation that ran last: "init", "feed" or "signal"
    data,       \* the block of the last feed()
    w,          \* the width of the last signal() called directly
    ret,        \* what that signal() returned
    ev,         \* what the last operation did to the outside: writes, syn, prints
    sigs,       \* the widths the last feed() passed to signal()
    split,      \* a block handed over in two parts: the decoder before it, the
                \* parts, what the first part did and what the undivided
                \* block does to the same decoder
    twin        \* a second decoder that is fed the same samples in other
                \* blocks: the decoder, its last block, the samples it has
                \* not been fed yet, and the writes of either decoder the
                \* other one has not made

vars == <<rate, marker, lf, last_edge, ch, op, data, w, ret, ev, sigs, split, twin>>

\* the decoder's attributes, and the locals and effects of the running call
Self ==
    [rate |-> rate, marker |-> marker, lf |-> lf, last_edge |-> last_edge,
     ch |-> ch, sync_req |-> FALSE, ret |-> FALSE, ev |-> <<>>, sigs |-> <<>>]

Writes(e) ==
    SelectSeq(e, LAMBDA x : x[1] = "write")

SynCount(e) ==
    Len(SelectSeq(e, LAMBDA x : x[1] = "syn"))

Printed(e, msg) ==
    \E i \in 1..Len(e) : e[i] = <<"print", msg>>

\* a marker test that gives up on long gaps
IsMarkerShort(x, m) ==
    x > m /\ x <= 2 * m

\* a marker test one sample late
IsMarkerOff(x, m) ==
    x > m + 1

\* w > self._marker: the pulse is the gap between two frames
IsMarker(x, m) ==
    x > m

\* a dropped pulse that takes the decoder out of sync
DroppedUnsyncs(s) ==
    [s EXCEPT !.ch = None, !.ret = FALSE]

\* a dropped pulse that still counts as a channel
DroppedAdvances(s) ==
    [s EXCEPT !.ch = IF @ = None THEN None ELSE Some(@[1] + 1), !.ret = FALSE]

\* the early return of a pulse outside a frame or past the mapped channels
Dropped(s) ==
    [s EXCEPT !.ret = FALSE]

\* an index that skips a channel
NextChSkips(c) ==
    c + 2

\* an index that never advances
NextChStays(c) ==
    c

\* self._ch += 1
NextCh(c) ==
    c + 1

\* a gap that starts a frame only for a decoder out of sync
MarkedKeeps(s) ==
    [s EXCEPT !.ev = IF s.ch = None THEN Append(@, <<"print", "Got sync">>) ELSE @,
              !.ch = IF s.ch = None THEN Some(0) ELSE @,
              !.ret = FALSE]

\* the gap between two frames: the next pulse is channel 0
Marked(s) ==
    [s EXCEPT !.ev = IF s.ch = None THEN Append(@, <<"print", "Got sync">>) ELSE @,
              !.ch = Some(0),
              !.ret = FALSE]

\* PPMDecoder.signal
signal(s, x) ==
    IF IsMarker(x, s.marker)
    THEN Marked(s)
    ELSE IF s.ch = None \/ s.ch[1] \notin DOMAIN mapping
    THEN Dropped(s)
    ELSE LET value == ValueTable[s.rate][x]
         IN  [s EXCEPT !.ev = Append(@, <<"write", mapping[s.ch[1]], value>>),
                       !.ch = Some(NextCh(s.ch[1])),
                       !.ret = TRUE]

ThisEdgeAt(sample) ==
    sample >= threshold

\* this_edge = data[i] > self._threshold
ThisEdge(sample) ==
    sample > threshold

SyncLast(req, r) ==
    r

\* sync_req |= self.signal(...)
OrSync(req, r) ==
    req \/ r

\* the pulse width went to signal(): its answer and the width are noted
Forwarded(r, x) ==
    [r EXCEPT !.sync_req = OrSync(@, r.ret), !.sigs = Append(@, x)]

\* a rising edge at index i
Rising(s, i) ==
    IF s.lf # None THEN Forwarded(signal(s, i - s.lf[1]), i - s.lf[1]) ELSE s

\* a falling edge that does not replace the one recorded before
EdgeKeepsFall(s, i, this_edge) ==
    IF this_edge /\ ~s.last_edge[1] THEN Rising(s, i)
    ELSE IF ~this_edge /\ s.last_edge[1] /\ s.lf = None THEN [s EXCEPT !.lf = Some(i)]
    ELSE s

\* the sample at index i against the level of the sample before it
Edge(s, i, this_edge) ==
    IF this_edge /\ ~s.last_edge[1] THEN Rising(s, i)
    ELSE IF ~this_edge /\ s.last_edge[1] THEN [s EXCEPT !.lf = Some(i)]
    ELSE s

\* a loop that takes the first sample of every block for no edge
FeedStepBlockStart(s, d, i) ==
    IF s.last_edge = None \/ i = 0
    THEN [s EXCEPT !.last_edge = Some(ThisEdge(d[i + 1]))]
    ELSE [Edge(s, i, ThisEdge(d[i + 1])) EXCEPT !.last_edge = Some(ThisEdge(d[i + 1]))]

\* one iteration of the loop of feed(), at index i (from 0) of the block d
FeedStep(s, d, i) ==
    IF s.last_edge = None
    THEN [s EXCEPT !.last_edge = Some(ThisEdge(d[i + 1]))]
    ELSE [Edge(s, i, ThisEdge(d[i + 1])) EXCEPT !.last_edge = Some(ThisEdge(d[i + 1]))]

RECURSIVE FeedLoop(_, _, _)
FeedLoop(s, d, i) ==
    IF i >= Len(d) THEN s ELSE FeedLoop(FeedStep(s, d, i), d, i + 1)

\* if sync_req: self._ev.syn()
FeedSyn(s) ==
    IF s.sync_req THEN [s EXCEPT !.ev = Append(@, <<"syn">>)] ELSE s

\* a guard that fires one sample late
LostSyncLate(offset, r) ==
    offset < -r - 1

\* a guard that fires one sample early
LostSyncAt(offset, r) ==
    offset <= -r

\* self._lf < (-self._rate)
LostSync(offset, r) ==
    offset < -r

\* an offset carried one sample short
CarryOneLess(offset, n) ==
    offset - n + 1

\* an offset carried one sample too far
CarryOneMore(offset, n) ==
    offset - n - 1

\* self._lf - len(data)
Carry(offset, n) ==
    offset - n

\* a guard that gives up only a falling edge no rising edge has followed
CarriedPending(s, off) ==
    IF LostSync(off, s.rate) /\ s.last_edge = Some(FALSE)
    THEN [s EXCEPT !.ev = Append(@, <<"print", "Lost sync">>),
                   !.ch = None,
                   !.lf = None]
    ELSE [s EXCEPT !.lf = Some(off)]

\* the offset is made relative to the next block, and the decoder gives up
\* a falling edge older than one second
Carried(s, off) ==
    IF LostSync(off, s.rate)
    THEN [s EXCEPT !.ev = Append(@, <<"print", "Lost sync">>),
                   !.ch = None,
                   !.lf = None]
    ELSE [s EXCEPT !.lf = Some(off)]

\* an offset that is forgotten at the end of every block
FeedCarryDropped(s, d) ==
    [s EXCEPT !.lf = None]

\* the end of feed()
FeedCarry(s, d) ==
    IF s.lf = None THEN s ELSE Carried(s, Carry(s.lf[1], Len(d)))

\* PPMDecoder.feed
feed(s, d) ==
    FeedCarry(FeedSyn(FeedLoop(s, d, 0)), d)

(***************************************************************************)
(* Inputs                                                                  *)
(***************************************************************************)
\* sample values of the arbitrary blocks: the highest low sample and the
\* lowest high sample
Samples == {threshold, threshold + 1}

\* the longest block of arbitrary samples
MaxLen == 3

RECURSIVE SeqsUpTo(_, _)
SeqsUpTo(S, n) ==
    IF n = 0 THEN {<<>>}
    ELSE LET shorter == SeqsUpTo(S, n - 1)
         IN  shorter \cup {Append(q, x) : q \in {t \in shorter : Len(t) = n - 1}, x \in S}

\* the blocks fed: every short block of those samples, and one sample of silence
Blocks == SeqsUpTo(Samples, MaxLen) \cup {<<0>>}

(***************************************************************************)
(* Operations                                                              *)
(***************************************************************************)
\* no block has been handed over in parts
NoSplit ==
    [part |-> 0, before |-> Self, head |-> <<>>, rest |-> <<>>,
     ev |-> <<>>, sigs |-> <<>>, whole |-> Self]

\* a second decoder, constructed alike
NoTwin ==
    [dec |-> Self, last |-> <<>>, pend |-> <<>>, wa |-> <<>>, wb |-> <<>>]

\* PPMDecoder.__init__
InitWith(rates) ==
    /\ rate \in rates
    /\ marker = MarkerOf(rate)
    /\ lf = None
    /\ last_edge = None
    /\ ch = None
    /\ op = "init"
    /\ data = <<>>
    /\ w = 0
    /\ ret = FALSE
    /\ ev = <<>>
    /\ sigs = <<>>
    /\ split = NoSplit
    /\ twin = NoTwin

Init == InitWith(FeedRates)

\* the decoder after a feed() that ended as r
FeedDone(r, d) ==
    /\ lf' = r.lf
    /\ last_edge' = r.last_edge
    /\ ch' = r.ch
    /\ ev' = r.ev
    /\ sigs' = r.sigs
    /\ data' = d
    /\ op' = "feed"
    /\ UNCHANGED <<rate, marker, w, ret>>

\* a feed() of a block that is handed over in one piece
Fed(r, d) ==
    FeedDone(r, d) /\ UNCHANGED <<split, twin>>

Feed(d) == Fed(feed(Self, d), d)

FeedBlock == \E d \in Blocks : Feed(d)

Next == FeedBlock

Spec == Init /\ [][Next]_vars

\* widths passed to signal() reach this far past the marker
MaxOver == 2

\* a direct call of the public method signal()
Signalled(r, x) ==
    /\ ch' = r.ch
    /\ ev' = r.ev
    /\ ret' = r.ret
    /\ w' = x
    /\ op' = "signal"
    /\ UNCHANGED <<rate, marker, lf, last_edge, data, sigs, split, twin>>

Signal(x) == Signalled(signal(Self, x), x)

InitSignal == InitWith(SignalRates)

NextSignal == \E x \in 1..(marker + MaxOver) : Signal(x)

SpecSignal == InitSignal /\ [][NextSignal]_vars

\* a block of n samples x
Rep(x, n) ==
    [i \in 1..n |-> x]

\* the lowest high sample and the highest low sample
Hi == threshold + 1

Lo == threshold

\* the pulses of the widths ws, each ended by hi high samples
RECURSIVE Pulses(_, _)
Pulses(ws, hi) ==
    IF ws = <<>> THEN <<>>
    ELSE Rep(Lo, Head(ws)) \o Rep(Hi, hi) \o Pulses(Tail(ws), hi)

\* a frame: the signal high, a gap of g low samples, then the pulses ws
FrameBlock(hi, g, ws) ==
    Rep(Hi, hi) \o Rep(Lo, g) \o Rep(Hi, hi) \o Pulses(ws, hi)

\* the most pulses of a frame
MaxPulses == 5

\* the longest run of high samples between two pulses
MaxHigh == 2

\* the first feed() of a decoder: one block holding a whole frame
FeedFrame(hi, g, ws) ==
    /\ op = "init"
    /\ Feed(FrameBlock(hi, g, ws))

InitFrame == InitWith(FrameRates)

NextFrame ==
    \E hi \in 1..MaxHigh, g \in marker..(marker + MaxOver),
       ws \in SeqsUpTo(1..marker, MaxPulses) : FeedFrame(hi, g, ws)

SpecFrame == InitFrame /\ [][NextFrame]_vars

\* one frame after another, each in a block of its own: the shortest gap
\* wider than the marker and pulses narrower than it, one high sample
\* between them
FeedNextFrame(ws) ==
    Feed(FrameBlock(1, marker + 1, ws))

InitStream == InitWith(StreamRates)

NextStream ==
    \E ws \in SeqsUpTo(1..(marker - 1), MaxPulses) : FeedNextFrame(ws)

SpecStream == InitStream /\ [][NextStream]_vars

\* a block is handed over in parts only this soon after a falling edge
MaxIdle == 6

\* the first n samples of the block d are fed; the rest waits
SplitFirst(d, n) ==
    /\ split.part # 1
    /\ IF lf = None THEN TRUE ELSE lf[1] >= -MaxIdle
    /\ FeedDone(feed(Self, SubSeq(d, 1, n)), SubSeq(d, 1, n))
    /\ split' = [part |-> 1, before |-> Self, head |-> SubSeq(d, 1, n),
                 rest |-> SubSeq(d, n + 1, Len(d)), ev |-> ev', sigs |-> sigs',
                 whole |-> feed(Self, d)]
    /\ UNCHANGED twin

\* the rest of the block is fed
SplitRest ==
    /\ split.part = 1
    /\ FeedDone(feed(Self, split.rest), split.rest)
    /\ split' = [split EXCEPT !.part = 2]
    /\ UNCHANGED twin

InitSplit == InitWith(SplitRates)

NextSplit ==
    \/ \E d \in Blocks : \E n \in 1..(Len(d) - 1) : SplitFirst(d, n)
    \/ SplitRest

SpecSplit == InitSplit /\ [][NextSplit]_vars

\* the second decoder is at most this many samples behind the first
MaxPend == 3

\* two write logs without the writes they start with in common
RECURSIVE StripCommon(_, _)
StripCommon(a, b) ==
    IF a # <<>> /\ b # <<>> /\ Head(a) = Head(b)
    THEN StripCommon(Tail(a), Tail(b))
    ELSE <<a, b>>

\* the second decoder at the start of a feed()
TwinSelf ==
    [twin.dec EXCEPT !.sync_req = FALSE, !.ret = FALSE, !.ev = <<>>, !.sigs = <<>>]

\* the second decoder after a feed() of the first n samples it is behind,
\* that ended as r
TwinFed(r, n) ==
    twin' = [dec |-> r,
             last |-> SubSeq(twin.pend, 1, n),
             pend |-> SubSeq(twin.pend, n + 1, Len(twin.pend)),
             wa |-> StripCommon(twin.wa, twin.wb \o Writes(r.ev))[1],
             wb |-> StripCommon(twin.wa, twin.wb \o Writes(r.ev))[2]]

\* the first decoder is fed the block d, which the second one gets later
FeedAhead(d) ==
    /\ Len(twin.pend) + Len(d) <= MaxPend
    /\ IF lf = None THEN TRUE ELSE lf[1] >= -MaxIdle
    /\ FeedDone(feed(Self, d), d)
    /\ twin' = [twin EXCEPT !.pend = @ \o d, !.wa = @ \o Writes(ev')]
    /\ UNCHANGED split

\* the second decoder is fed, in one block, the next n samples it is behind
FeedBehind(n) ==
    /\ TwinFed(feed(TwinSelf, SubSeq(twin.pend, 1, n)), n)
    /\ UNCHANGED <<rate, marker, lf, last_edge, ch, op, data, w, ret, ev, sigs, split>>

InitParts == InitWith(FeedRates)

NextParts ==
    \/ \E d \in Blocks : FeedAhead(d)
    \/ \E n \in 1..Len(twin.pend) : FeedBehind(n)

SpecParts == InitParts /\ [][NextParts]_vars

(***************************************************************************)
(* Properties of signal(), under SpecSignal                                *)
(***************************************************************************)
\* C1 as stated: a pulse of width >= MarkerWidth sets the channel index to 0,
\* writes no axis and requests no synchronize, whatever the state before.
C1_AsStated ==
    [][(op' = "signal" /\ w' >= marker)
         => (ch' = Some(0) /\ Writes(ev') = <<>> /\ ret' = FALSE)]_vars

\* C1 amended: a pulse of width > MarkerWidth (strictly) sets the channel
\* index to 0, writes no axis and requests no synchronize, whatever the state
\* before; from Unsynced it leads to Synced(0).
C1_GapResets ==
    [][(op' = "signal" /\ w' > marker)
         => (ch' = Some(0) /\ Writes(ev') = <<>> /\ SynCount(ev') = 0 /\ ret' = FALSE)]_vars

C1_Witness ==
    op = "signal" /\ w > marker /\ ch = Some(0) /\ Printed(ev, "Got sync") /\ ~ret

\* the integer nearest to n / d (d > 0), ties to even as Python's round()
RoundNearest(n, d) ==
    LET fl == n \div d
        rm == n - fl * d
    IN  IF 2 * rm > d THEN fl + 1
        ELSE IF 2 * rm < d THEN fl
        ELSE IF fl % 2 = 0 THEN fl ELSE fl + 1

\* n / d (d > 0) truncated toward zero
TruncExact(n, d) ==
    IF n >= 0 THEN n \div d ELSE -((-n) \div d)

\* (x / r - 0.0007) * 1000 * 255 as the exact fraction ExactNum / ExactDen
ExactNum(x, r) == (10000 * x - 7 * r) * 51

ExactDen(r) == 2 * r

\* the value of the axis write of the last direct signal()
Written == ev[Len(ev)][3]

\* C2 as stated: the value written for a channel pulse of width w is
\* round((w / sample_rate - 0.0007) * 1000 * 255).
C2_AsStated ==
    (op = "signal" /\ ret)
        => Written = RoundNearest(ExactNum(w, rate), ExactDen(rate))

\* C2 amended: the value written is (w / sample_rate - 0.0007) * 1000 * 255
\* truncated toward zero, not rounded and not clamped; where the exact value
\* is a whole number the double arithmetic may fall short of it, and the
\* write then carries that whole number or the next integer toward zero.
C2_ValueTruncated ==
    (op = "signal" /\ ret)
        => LET n == ExactNum(w, rate)
               d == ExactDen(rate)
               t == TruncExact(n, d)
           IN  /\ Len(ev) = 1
               /\ ev[1][1] = "write"
               /\ IF n % d # 0 THEN Written = t
                  ELSE IF t > 0 THEN Written \in {t, t - 1}
                  ELSE IF t < 0 THEN Written \in {t, t + 1}
                  ELSE Written = 0

C2_Witness ==
    op = "signal" /\ ret /\ Written < 0 /\ ExactNum(w, rate) % ExactDen(rate) # 0

\* C6: a channel pulse (width below MarkerWidth) arriving while Unsynced, or
\* with the channel index past the mapping, writes nothing, requests no
\* synchronize and leaves the channel index unchanged.
C6_DroppedPulse ==
    [][(/\ op' = "signal"
        /\ w' < marker
        /\ IF ch = None THEN TRUE ELSE ch[1] >= Cardinality(DOMAIN mapping))
         => (ev' = <<>> /\ ret' = FALSE /\ ch' = ch)]_vars

C6_Witness ==
    op = "signal" /\ w < marker /\ ch = Some(Cardinality(DOMAIN mapping)) /\ ~ret /\ ev = <<>>

(***************************************************************************)
(* Properties of feed(), under Spec                                        *)
(***************************************************************************)
High(x) == x > threshold

AllLow(d) == \A i \in 1..Len(d) : ~High(d[i])

\* a sample of d is low and the sample before it (the level carried over from
\* the block before, for the first one) is high
HasFall(prev, d) ==
    \E i \in 1..Len(d) :
        /\ ~High(d[i])
        /\ IF i = 1 THEN prev = Some(TRUE) ELSE High(d[i - 1])

\* C4: a feed() calls synchronize at most once, after every write of the
\* block, and exactly when the block caused at least one axis write.
C4_SynOncePerBlock ==
    op = "feed"
        => /\ SynCount(ev) <= 1
           /\ SynCount(ev) = 1 <=> Writes(ev) # <<>>
           /\ \A i, j \in 1..Len(ev) :
                  (ev[i][1] = "syn" /\ ev[j][1] = "write") => j < i

C4_Witness ==
    op = "feed" /\ Len(Writes(ev)) = 2 /\ SynCount(ev) = 1 /\ Len(sigs) = 2

\* C5: a block whose samples are all at or below the threshold causes no
\* axis write and no synchronize call, in any state.
C5_QuietBlock ==
    (op = "feed" /\ AllLow(data))
        => (Writes(ev) = <<>> /\ SynCount(ev) = 0)

C5_Witness ==
    /\ op = "feed" /\ data # <<>> /\ AllLow(data)
    /\ \E i \in 1..Len(data) : data[i] = threshold
    /\ ch # None /\ lf # None /\ last_edge = Some(FALSE)

\* C7: with a falling edge recorded and the signal low, an all-low block
\* that ends more than sample_rate samples after that edge leaves the
\* decoder Unsynced with no falling-edge offset; one that ends at most
\* sample_rate samples after it only moves the offset.
C7_QuietTimeout ==
    [][(op' = "feed" /\ AllLow(data') /\ lf # None /\ last_edge = Some(FALSE))
         => IF Len(data') - lf[1] > rate
            THEN ch' = None /\ lf' = None
            ELSE ch' = ch /\ lf' = Some(lf[1] - Len(data'))]_vars

C7_Witness ==
    /\ op = "feed" /\ data # <<>> /\ AllLow(data)
    /\ Printed(ev, "Lost sync") /\ ch = None /\ lf = None /\ last_edge = Some(FALSE)

\* C9: feeding an empty block changes nothing: no write, no synchronize, and
\* the channel index, the falling-edge offset and the level stay as they are.
C9_EmptyBlock ==
    [][(op' = "feed" /\ data' = <<>>)
         => (ev' = <<>> /\ sigs' = <<>> /\ ch' = ch /\ lf' = lf /\ last_edge' = last_edge)]_vars

C9_Witness ==
    op = "feed" /\ data = <<>> /\ lf = Some(-rate) /\ ch # None

\* C10 as stated: the guard takes the decoder out of sync only while no
\* rising edge has followed the last falling edge, that is while the signal
\* is low.
C10_AsStated ==
    [][(ch # None /\ ch' = None) => last_edge' = Some(FALSE)]_vars

\* C10 amended: the guard fires exactly when a block ends more than
\* sample_rate samples after the most recent falling edge, whether or not a
\* rising edge has followed that edge; it then clears the channel index and
\* the offset, and nothing else takes the decoder out of sync.
C10_GuardByAge ==
    [][op' = "feed"
         => LET fired == Printed(ev', "Lost sync")
                aged  == /\ lf # None
                         /\ ~HasFall(last_edge, data')
                         /\ Len(data') - lf[1] > rate
            IN  /\ fired <=> aged
                /\ fired => (ch' = None /\ lf' = None)
                /\ (ch # None /\ ch' = None) => fired]_vars

C10_Witness ==
    /\ op = "feed" /\ Printed(ev, "Lost sync") /\ ch = None
    /\ last_edge = Some(TRUE) /\ data # <<>> /\ \A i \in 1..Len(data) : High(data[i])

(***************************************************************************)
(* Properties of a frame fed to a new decoder, under SpecFrame             *)
(***************************************************************************)
\* the frames whose pulses are all narrower than the marker
ChannelFrames(m) ==
    SeqsUpTo(1..(m - 1), Cardinality(DOMAIN mapping))

\* k writes, to the channels 0 .. k-1 in that order, and one synchronize
\* when k > 0
WritesInOrder(e, k) ==
    /\ Len(Writes(e)) = k
    /\ \A i \in 1..k : Writes(e)[i][2] = mapping[i - 1]
    /\ SynCount(e) = IF k > 0 THEN 1 ELSE 0

\* C3 as stated: a new decoder fed, in one block, a gap of width >=
\* MarkerWidth and then k channel pulses (widths < MarkerWidth, 0 <= k <=
\* |ChannelMapping|) writes exactly k axes, channels 0 .. k-1 in that order,
\* and calls synchronize once if k > 0 and never if k = 0.
C3_AsStated ==
    [][(op = "init" /\ op' = "feed")
         => \A hi \in 1..MaxHigh, g \in marker..(marker + MaxOver), ws \in ChannelFrames(marker) :
                (data' = FrameBlock(hi, g, ws) /\ g >= marker)
                    => WritesInOrder(ev', Len(ws))]_vars

\* C3 amended: a new decoder fed, in one block, a gap of width > MarkerWidth
\* (strictly) and then k channel pulses (widths < MarkerWidth, 0 <= k <=
\* |ChannelMapping|) is handed the gap and the k widths, writes exactly k
\* axes, channels 0 .. k-1 in that order, and calls synchronize once if
\* k > 0 and never if k = 0.
C3_FrameDecoded ==
    [][(op = "init" /\ op' = "feed")
         => \A hi \in 1..MaxHigh, g \in marker..(marker + MaxOver), ws \in ChannelFrames(marker) :
                (data' = FrameBlock(hi, g, ws) /\ g > marker)
                    => /\ sigs' = <<g>> \o ws
                       /\ WritesInOrder(ev', Len(ws))]_vars

C3_Witness ==
    /\ op = "feed" /\ Len(sigs) = 5 /\ sigs[1] = marker + 1
    /\ \A i \in 2..5 : sigs[i] < marker
    /\ Len(Writes(ev)) = 4 /\ Writes(ev)[4][2] = "ABS_THROTTLE" /\ SynCount(ev) = 1

(***************************************************************************)
(* Properties of a block handed over in two parts, under SpecSplit         *)
(***************************************************************************)
\* how many low samples the block d ends with
RECURSIVE LowTail(_)
LowTail(d) ==
    IF d = <<>> \/ High(d[Len(d)]) THEN 0
    ELSE 1 + LowTail(SubSeq(d, 1, Len(d) - 1))

\* how many low samples the block d starts with
RECURSIVE LowHead(_)
LowHead(d) ==
    IF d = <<>> \/ High(Head(d)) THEN 0 ELSE 1 + LowHead(Tail(d))

\* the first part holds the falling edge of a pulse and ends inside it, and
\* the second part holds its rising edge
CutInPulse ==
    /\ split.part = 2
    /\ LowTail(split.head) >= 1
    /\ IF LowTail(split.head) < Len(split.head) THEN TRUE
       ELSE split.before.last_edge = Some(TRUE)
    /\ LowHead(data) < Len(data)

\* the width of that pulse
CutWidth ==
    LowTail(split.head) + LowHead(data)

\* C8: a channel pulse whose falling edge is in one block and whose rising
\* edge is in the next is forwarded with the width it has, and the two
\* blocks forward the same widths and write the same axes and values as
\* the undivided block does, wherever inside the pulse the boundary lies.
C8_SplitPulse ==
    (CutInPulse /\ CutWidth < marker)
        => /\ sigs # <<>> /\ sigs[1] = CutWidth
           /\ split.sigs \o sigs = split.whole.sigs
           /\ Writes(split.ev) \o Writes(ev) = Writes(split.whole.ev)
           /\ ch = split.whole.ch

C8_Witness ==
    /\ CutInPulse /\ CutWidth = 2 /\ LowHead(data) = 1 /\ 2 < marker
    /\ ev # <<>> /\ ev[1][1] = "write" /\ ev[1] = split.whole.ev[1]

(***************************************************************************)
(* The channel index over a sequence of feed(), under Spec                 *)
(***************************************************************************)
\* the pulse of width x is written: it is no sync gap and arrives with the
\* channel index c defined and inside the mapping
PulseWritten(c, x) ==
    x <= marker /\ c # None /\ c[1] \in DOMAIN mapping

\* the channel index after the pulses xs[i..], each one a reset to 0, a step
\* of exactly one with a write, or no change
RECURSIVE ChAfter(_, _, _)
ChAfter(c, xs, i) ==
    IF i > Len(xs) THEN c
    ELSE IF xs[i] > marker THEN ChAfter(Some(0), xs, i + 1)
    ELSE IF PulseWritten(c, xs[i]) THEN ChAfter(Some(c[1] + 1), xs, i + 1)
    ELSE ChAfter(c, xs, i + 1)

\* the axes written for the pulses xs[i..]
RECURSIVE AxesAfter(_, _, _)
AxesAfter(c, xs, i) ==
    IF i > Len(xs) THEN <<>>
    ELSE IF PulseWritten(c, xs[i])
         THEN <<mapping[c[1]]>> \o AxesAfter(Some(c[1] + 1), xs, i + 1)
         ELSE AxesAfter(ChAfter(c, <<xs[i]>>, 1), xs, i + 1)

\* the axes of the writes of the log e
Axes(e) ==
    [i \in 1..Len(Writes(e)) |-> Writes(e)[i][2]]

\* C11: over any sequence of feed(), the channel index goes up only by
\* exactly one, and exactly with each axis write, which is emitted for a
\* pulse that arrives with the index defined and inside the mapping; every
\* other change is a reset to 0 by a sync gap or to unset by the sync-loss
\* guard.
C11_ChannelSteps ==
    [][op' = "feed"
         => /\ Axes(ev') = AxesAfter(ch, sigs', 1)
            /\ ch' = IF Printed(ev', "Lost sync") THEN None ELSE ChAfter(ch, sigs', 1)]_vars

C11_Witness ==
    /\ op = "feed" /\ Len(sigs) = 2 /\ sigs[1] > marker /\ sigs[2] <= marker
    /\ Axes(ev) = <<"ABS_X">> /\ ch = Some(1)

\* the sample d[i] is low and the sample before it is high (prev is the level
\* carried into the block)
FallAt(prev, d, i) ==
    /\ ~High(d[i])
    /\ IF i = 1 THEN prev = Some(TRUE) ELSE High(d[i - 1])

\* the sample d[i] is high and the sample before it is low
RiseAt(prev, d, i) ==
    /\ High(d[i])
    /\ IF i = 1 THEN prev = Some(FALSE) ELSE ~High(d[i - 1])

\* the index (from 0) of the last falling edge among the first n samples of
\* d, or the offset l carried into the block when there is none
LastFall(prev, l, d, n) ==
    IF \E i \in 1..n : FallAt(prev, d, i)
    THEN Some((CHOOSE i \in 1..n :
                  FallAt(prev, d, i) /\ \A j \in (i + 1)..n : ~FallAt(prev, d, j)) - 1)
    ELSE l

\* C12: the decoder is Unsynced at construction, and a Synced decoder
\* becomes Unsynced only by the guard at the end of a block, which fires
\* with the carried offset below -sample_rate and prints after everything
\* else of the block; when the guard does not fire, a Synced decoder stays
\* Synced whatever pulses and samples the block holds.
C12_UnsyncOnlyByGuard ==
    [][/\ op = "init" => ch = None
       /\ (op' = "feed" /\ ch # None /\ ch' = None)
            => /\ ev' # <<>> /\ ev'[Len(ev')] = <<"print", "Lost sync">>
               /\ LastFall(last_edge, lf, data', Len(data')) # None
               /\ LastFall(last_edge, lf, data', Len(data'))[1] - Len(data') < -rate
               /\ lf' = None
       /\ (op' = "feed" /\ ch # None /\ ~Printed(ev', "Lost sync")) => ch' # None]_vars

C12_Witness ==
    /\ op = "feed" /\ Printed(ev, "Lost sync") /\ ch = None /\ lf = None
    /\ sigs # <<>> /\ sigs[Len(sigs)] > marker

(***************************************************************************)
(* Properties of one frame after another, under SpecStream                 *)
(***************************************************************************)
\* the smaller of two numbers
Min(a, b) ==
    IF a < b THEN a ELSE b

\* the lengths of the runs of low samples of d[i..], the first of them n
\* samples long so far
RECURSIVE LowRuns(_, _, _)
LowRuns(d, i, n) ==
    IF i > Len(d) THEN IF n > 0 THEN <<n>> ELSE <<>>
    ELSE IF ~High(d[i]) THEN LowRuns(d, i + 1, n + 1)
    ELSE IF n > 0 THEN <<n>> \o LowRuns(d, i + 1, 0)
    ELSE LowRuns(d, i + 1, 0)

\* the pulses ws of a frame are written to the channels from 0 on, in order,
\* as far as the mapping goes, and the rest of them is dropped
FrameWritten(e, c, ws) ==
    /\ Len(Writes(e)) = Min(Len(ws), Cardinality(DOMAIN mapping))
    /\ \A i \in 1..Len(Writes(e)) :
           Writes(e)[i] = <<"write", mapping[i - 1], ValueTable[rate][ws[i]]>>
    /\ c = Some(Len(Writes(e)))

\* C13: between two sync gaps the i-th channel pulse of the frame (from 0)
\* is written to channel i while i < |ChannelMapping| and is dropped
\* otherwise, so the frame writes at most |ChannelMapping| axes, in channel
\* order, whatever the number of pulses of the frame before (also for the
\* first frame of a new decoder).
C13_FrameChannels ==
    [][op' = "feed"
         => /\ LowRuns(data', 1, 0) # <<>>
            /\ Head(LowRuns(data', 1, 0)) > marker
            /\ \A i \in 2..Len(LowRuns(data', 1, 0)) : LowRuns(data', 1, 0)[i] < marker
            /\ FrameWritten(ev', ch', Tail(LowRuns(data', 1, 0)))]_vars

C13_Witness ==
    /\ op = "feed" /\ Len(sigs) = Cardinality(DOMAIN mapping) + 2
    /\ Len(Writes(ev)) = Cardinality(DOMAIN mapping)
    /\ ch = Some(Cardinality(DOMAIN mapping)) /\ ~Printed(ev, "Got sync")

(***************************************************************************)
(* Re-acquiring synchronization, under Spec                                *)
(***************************************************************************)
\* the samples since the falling edge at the offset l, up to the first high
\* sample of the block d
GapWidth(l, d) ==
    LowHead(d) - l[1]

\* the decoder right after the first high sample of the block d
AtFirstRise(d) ==
    FeedLoop(Self, SubSeq(d, 1, LowHead(d) + 1), 0)

C15_SameInOtherBlocks ==
    twin.pend = <<>>
        => /\ twin.wa = <<>> /\ twin.wb = <<>>
           /\ ch = twin.dec.ch
           /\ last_edge = twin.dec.last_edge
           /\ lf = twin.dec.lf

C15_Witness ==
    /\ twin.pend = <<>> /\ op = "feed"
    /\ Writes(ev) # <<>> /\ Writes(twin.dec.ev) # <<>>
    /\ Len(data) = 1 /\ Len(twin.last) = MaxPend
    /\ ch = Some(2) /\ twin.dec.ch = Some(2)

(***************************************************************************)
(* Pulse widths and offsets of feed(), under Spec                          *)
(***************************************************************************)
\* the falling edges the rising edges of d[i..] are measured against (index
\* from 0; negative for the edge carried into the block at the offset l): for
\* each rising edge the last falling edge before it
RECURSIVE FallsMeasured(_, _, _, _)
FallsMeasured(prev, l, d, i) ==
    IF i > Len(d) THEN <<>>
    ELSE IF RiseAt(prev, d, i) /\ LastFall(prev, l, d, i - 1) # None
         THEN <<LastFall(prev, l, d, i - 1)[1]>> \o FallsMeasured(prev, l, d, i + 1)
         ELSE FallsMeasured(prev, l, d, i + 1)

\* the number of samples from that falling edge to each rising edge of d[i..]
RECURSIVE WidthsMeasured(_, _, _, _)
WidthsMeasured(prev, l, d, i) ==
    IF i > Len(d) THEN <<>>
    ELSE IF RiseAt(prev, d, i) /\ LastFall(prev, l, d, i - 1) # None
         THEN <<(i - 1) - LastFall(prev, l, d, i - 1)[1]>> \o WidthsMeasured(prev, l, d, i + 1)
         ELSE WidthsMeasured(prev, l, d, i + 1)

\* C16: every width forwarded to signal() is at least 1 and is the number of
\* samples from the most recent falling edge to the rising edge that forwards
\* it; a later falling edge replaces an earlier one, and no falling edge is
\* measured against two rising edges, in one block or across blocks.
C16_WidthsForwarded ==
    [][op' = "feed"
         => /\ sigs' = WidthsMeasured(last_edge, lf, data', 1)
            /\ \A i \in 1..Len(sigs') : sigs'[i] >= 1
            /\ \A i, j \in 1..Len(sigs') :
                   i < j => FallsMeasured(last_edge, lf, data', 1)[i]
                              < FallsMeasured(last_edge, lf, data', 1)[j]
            /\ \A i \in 1..Len(sigs') :
                   FallsMeasured(last_edge, lf, data', 1)[i] < 0 => last_edge = Some(FALSE)]_vars

C16_Witness ==
    /\ op = "feed" /\ Len(sigs) = 2 /\ sigs[1] >= 2 /\ sigs[2] = 1
    /\ Len(data) = 3 /\ lf = Some(-2)

\* C17: whenever feed() has returned, the offset of the falling edge is unset
\* or lies in -sample_rate .. -1: never at or after the start of the next
\* block, never more than sample_rate samples before it.
C17_OffsetRange ==
    op = "feed" => (lf = None \/ (lf[1] >= -rate /\ lf[1] <= -1))

C17_Witness ==
    op = "feed" /\ data # <<>> /\ lf = Some(-rate) /\ last_edge = Some(TRUE)

(***************************************************************************)
(* The range of the channel index, under SpecSignal                        *)
(***************************************************************************)
\* C18: in every reachable state the channel index is unset or one of
\* 0 .. |ChannelMapping| (0 .. 4 with the mapping of the source): it stops at
\* the first index outside the mapping however many pulses follow without a
\* sync gap.
C18_ChannelRange ==
    /\ Cardinality(DOMAIN mapping) = 4
    /\ ch = None \/ ch[1] \in 0..Cardinality(DOMAIN mapping)

C18_Witness ==
    /\ op = "signal" /\ ret /\ w <= marker
    /\ ch = Some(Cardinality(DOMAIN mapping)) /\ ev[1][2] = mapping[3]

(***************************************************************************)
(* The first sample, under Spec                                            *)
(***************************************************************************)
\* the offset returned for a falling edge at f (index from 0, or carried) of
\* a block of n samples
OffsetAfter(f, n) ==
    IF f = None THEN None ELSE Some(f[1] - n)

\* C19: the first sample ever fed to a new decoder only sets the level: it
\* is no edge whatever its level, so it records no falling edge, forwards no
\* width and causes no write; every later sample, the first one of every
\* later block included, is compared with the level of the sample before it.
C19_FirstSample ==
    [][(op' = "feed" /\ data' # <<>>)
         => /\ last_edge' = Some(High(data'[Len(data')]))
            /\ last_edge = None
                 => /\ Len(data') = 1 => (lf' = None /\ sigs' = <<>> /\ ev' = <<>>)
                    /\ sigs' = WidthsMeasured(None, None, data', 1)
                    /\ lf' = OffsetAfter(LastFall(None, None, data', Len(data')), Len(data'))
                    /\ \A i \in 1..Len(sigs') : sigs'[i] < Len(data') - 1
            /\ (last_edge = Some(TRUE) /\ ~High(data'[1]) /\ ~HasFall(None, data'))
                 => lf' = Some(-Len(data'))
            /\ (last_edge = Some(FALSE) /\ High(data'[1]) /\ lf # None)
                 => (sigs' # <<>> /\ sigs'[1] = -lf[1])]_vars

C19_Witness ==
    /\ op = "feed" /\ Len(data) = 1 /\ ~High(data[1]) /\ last_edge = Some(FALSE)
    /\ lf = None /\ ch = None /\ sigs = <<>> /\ ev = <<>>

====
